---------------------------- MODULE Spec2Model ----------------------------
(***************************************************************************)
(* Waydroid-Helper backend (src/backend/backend.py): the settings store,   *)
(* the controller's lifecycle operations, and the D-Bus service with its   *)
(* resource-monitor thread.                                                *)
(*                                                                         *)
(* Threads.  The D-Bus methods are dispatched by the GLib main loop, one   *)
(* at a time, on the main thread (variables call, pc, ...).  The monitor   *)
(* loop runs on its own daemon thread (mpc, tick).  A blocking external    *)
(* command (subprocess.run / check_output) is a position of its thread     *)
(* ("..._run"): the other thread and the external processes started with   *)
(* subprocess.Popen take steps while it is in flight.                      *)
(***************************************************************************)
EXTENDS Integers, Sequences, FiniteSets, Bags, TLC

\* ------------------------------------------------------------------ bounds
MaxProcs == 2      \* external 'waydroid session start' processes alive at once
MaxCalls == 2      \* bus method calls dispatched in one behaviour
MaxTicks == 2      \* monitor loop iterations in one behaviour
MaxClock == 1      \* the wall clock runs over the seconds 0..MaxClock
MaxAppends == 102  \* rows committed to resource_logs in one behaviour of SpecSamples

\* -------------------------------------------------------- program constants
LogLimit == 100    \* rows kept by log_resource_usage (LIMIT 100)

VARIABLES
  \* the external runtime and the processes the helper spawned
  runtime,      \* "Stopped" | "Running": what `waydroid status` would report
  startProcs,   \* number of Popen'ed `waydroid session start` still executing
  clock,        \* the wall clock, in seconds
  lastStart,    \* the latest start_container: what it returned, and what became
                \* of the `waydroid session start` command it issued
  \* main thread: the bus method being dispatched
  call,         \* name of the bus method, "none" before the first call
  arg,          \* its argument (RestoreData's backup_dir), "" when none
  pc,           \* position inside the method, "done" when it has returned
  wasRunning,   \* local was_running of backup_data / restore_data
  backupDir,    \* local backup_dir of backup_data / restore_data, "" when unset
  ret,          \* value returned by the last finished call, "none" before any
  log,          \* external operations this call has completed, with outcome
  calls,        \* number of calls dispatched
  \* monitor thread
  monitoring,   \* self.monitoring
  mpc,          \* position inside _resource_monitor_loop
  tick,         \* what the current / last loop iteration has done
  ticks,        \* number of iterations begun
  \* persistent store (settings.db)
  tables,       \* names of the tables that exist
  settings,     \* rows of table settings: [key, value]
  visibility,   \* rows of table app_visibility: [package_name, app_name, visible]
  samples,      \* rows of table resource_logs, as a bag (rowid is never read)
  appended,     \* history: bag of every row ever committed to resource_logs
  storeFailed,  \* history: a statement on settings.db has raised sqlite3.Error
  \* file system
  dataDir,      \* WAYDROID_DATA_PATH
  appsDir,      \* WAYDROID_APPS_PATH: file name -> content
  backups,      \* BACKUP_PATH: NoDir, or directory name -> backup set
  cleared       \* history: the trees the user removed from the two directories
                \* after a backup, with the backup's directory and call number

envVars   == <<runtime, startProcs, clock, lastStart>>
callVars  == <<call, arg, calls>>
locals    == <<wasRunning, backupDir>>
mainVars  == <<callVars, locals, pc, ret, log>>
monVars   == <<monitoring, mpc, tick, ticks>>
storeVars == <<tables, settings, visibility, samples, appended, storeFailed>>
fsVars    == <<dataDir, appsDir, backups, cleared>>
vars      == <<envVars, mainVars, monVars, storeVars, fsVars>>

\* ------------------------------------------------------------ file system
\* A directory: whether it exists, and its files (name -> content).
NoDir == [exists |-> FALSE, files |-> <<>>]
Dir(files) == [exists |-> TRUE, files |-> files]

\* BACKUP_PATH: whether it exists, and its backup directories (name -> set)
NoBackups == [exists |-> FALSE, dirs |-> <<>>]

\* nothing removed by the user yet
NoClear == [data |-> <<>>, apps |-> <<>>, dir |-> "", at |-> 0]

\* An archive file of a backup set: absent, or a tar.gz holding a tree; a tar
\* that failed part-way leaves an incomplete file behind.
NoFile == [exists |-> FALSE, complete |-> FALSE, tree |-> <<>>]
Archive(tree, complete) == [exists |-> TRUE, complete |-> complete, tree |-> tree]

Restrict(f, S) == [x \in S |-> f[x]]

\* tar xzf over a directory: the archive's files replace or add to what is there.
Overlay(dir, tree) ==
  Dir([f \in (DOMAIN dir.files) \cup (DOMAIN tree) |->
         IF f \in DOMAIN tree THEN tree[f] ELSE dir.files[f]])

\* a tar xzf that fails: nothing, or only some of the archive's files, written
PartialOverlay(dir, tree) ==
  {dir} \cup { Overlay(dir, Restrict(tree, S)) : S \in (SUBSET DOMAIN tree) \ {DOMAIN tree} }

Digit(d) ==
  CASE d = 0 -> "0" [] d = 1 -> "1" [] d = 2 -> "2" [] d = 3 -> "3" [] d = 4 -> "4"
    [] d = 5 -> "5" [] d = 6 -> "6" [] d = 7 -> "7" [] d = 8 -> "8" [] d = 9 -> "9"

\* Python values handed to str(): an int or a str
PyInt(n) == [type |-> "int", v |-> n]
PyStr(x) == [type |-> "str", v |-> x]

RECURSIVE IntToStr(_)
IntToStr(n) == IF n < 10 THEN Digit(n) ELSE IntToStr(n \div 10) \o Digit(n % 10)

\* str(value)
str(value) == IF value.type = "int" THEN IntToStr(value.v) ELSE value.v

\* One completed external command of the current call, with its outcome.
Ev(c, ok) == [ok |-> ok, cmd |-> c]

\* The three figures of a sample: all zero (no matching process, or the
\* sampling exception path of lines 261-262), or measured values.
Zero == [cpu_usage |-> 0, ram_usage |-> 0, storage_usage |-> 0]
Busy == [cpu_usage |-> 1, ram_usage |-> 2, storage_usage |-> 3]
Figures == {Zero, Busy}

\* int(time.time()), and the second that file modification times and
\* time.strftime see
time_time == clock

\* ------------------------------------------------------------ the store
BagSize(B) == BagCardinality(B)
One(e) == SetToBag({e})

Row(ts, fig) ==
  [cpu_usage |-> fig.cpu_usage, ram_usage |-> fig.ram_usage, storage_usage |-> fig.storage_usage,
   timestamp |-> ts]

MinTimestamp(B) ==
  CHOOSE t \in {r.timestamp : r \in BagToSet(B)} :
    \A r \in BagToSet(B) : t <= r.timestamp

\* the largest timestamp in the table
MaxTimestamp(B) ==
  CHOOSE t \in {r.timestamp : r \in BagToSet(B)} :
    \A r \in BagToSet(B) : t >= r.timestamp

\* the DELETE with ORDER BY timestamp ASC: the n oldest rows are kept
RECURSIVE DeleteNotInOldest(_, _)
DeleteNotInOldest(B, n) ==
  IF BagSize(B) <= n THEN {B}
  ELSE UNION { DeleteNotInOldest(B (-) One(r), n) :
                 r \in {x \in BagToSet(B) : x.timestamp = MaxTimestamp(B)} }

\* DELETE ... WHERE rowid NOT IN (SELECT rowid ... ORDER BY timestamp DESC LIMIT n):
\* the possible tables afterwards.  Rows of equal timestamp are in no defined
\* order, so which of them fall outside the LIMIT is sqlite's choice.
RECURSIVE DeleteNotInNewest(_, _)
DeleteNotInNewest(B, n) ==
  IF BagSize(B) <= n THEN {B}
  ELSE UNION { DeleteNotInNewest(B (-) One(r), n) :
                 r \in {x \in BagToSet(B) : x.timestamp = MinTimestamp(B)} }

\* log_resource_usage: one transaction on its own connection (INSERT, DELETE,
\* commit); sqlite serialises writers and readers see committed tables only.
\* The outcomes: the commit, or sqlite3.Error raised with nothing committed.
log_resource_usage(cpu_usage, ram_usage, storage_usage) ==
  LET fig == [cpu_usage |-> cpu_usage, ram_usage |-> ram_usage,
              storage_usage |-> storage_usage]
      row == Row(time_time, fig)
  IN  { [row |-> row, raised |-> TRUE, table |-> samples] }
      \cup
      { [row |-> row, raised |-> FALSE, table |-> t] :
          t \in DeleteNotInNewest(samples (+) One(row), LogLimit) }

SettingRow(k, v) == [value |-> v, key |-> k]

\* Python's None, as a returned value
None == [type |-> "NoneType", v |-> ""]

\* get_setting: SELECT value FROM settings WHERE key = ?, fetchone(); the values
\* the call can return (None when no row matches)
get_setting(key) ==
  IF \E r \in settings : r.key = key
  THEN {PyStr(r.value) : r \in {x \in settings : x.key = key}}
  ELSE {None}

\* a plain INSERT INTO settings, on a table without the PRIMARY KEY
InsertSetting(T, k, v) == T \cup {SettingRow(k, v)}

\* INSERT OR REPLACE INTO settings: key is the PRIMARY KEY
InsertOrReplaceSetting(T, k, v) == {r \in T : r.key # k} \cup {SettingRow(k, v)}

\* a set_setting that can also raise after its commit
RaisesAfterCommit(key, value) ==
  { [raised |-> TRUE, table |-> InsertOrReplaceSetting(settings, key, str(value))],
    [raised |-> FALSE, table |-> InsertOrReplaceSetting(settings, key, str(value))] }

\* set_setting: the committed table, or sqlite3.Error raised with no change
set_setting(key, value) ==
  { [raised |-> TRUE, table |-> settings],
    [raised |-> FALSE, table |-> InsertOrReplaceSetting(settings, key, str(value))] }

AllTables == {"settings", "app_visibility", "resource_logs"}

\* CREATE TABLE [IF NOT EXISTS] t: without the clause an existing table raises
CreateTable(ts, t, if_not_exists) ==
  [tables |-> ts \cup {t}, raised |-> (t \in ts /\ ~if_not_exists)]

\* the defaults written with INSERT OR REPLACE
InsertOrReplaceDefault(T, k, v) == {r \in T : r.key # k} \cup {SettingRow(k, v)}

\* INSERT OR IGNORE INTO settings: a row whose key exists is left alone
InsertOrIgnoreSetting(T, k, v) ==
  IF \E r \in T : r.key = k THEN T ELSE T \cup {SettingRow(k, v)}

\* default_settings (lines 77-82), last_update_check being str(int(time.time()))
default_settings ==
  << SettingRow("auto_start", "0"), SettingRow("auto_update", "0"),
     SettingRow("last_update_check", str(PyInt(time_time))), SettingRow("last_backup_time", "0") >>

RECURSIVE InsertDefaults(_, _)
InsertDefaults(T, rows) ==
  IF rows = <<>> THEN T
  ELSE InsertDefaults(InsertOrIgnoreSetting(T, Head(rows).key, Head(rows).value), Tail(rows))

\* _ensure_db_exists: the three CREATE TABLE IF NOT EXISTS,
\* the INSERT OR IGNORE of each default, commit.  raised: a statement raised.
ensure_db_exists ==
  LET c1 == CreateTable(tables, "settings", TRUE)
      c2 == CreateTable(c1.tables, "app_visibility", TRUE)
      c3 == CreateTable(c2.tables, "resource_logs", TRUE)
  IN  [tables   |-> c3.tables,
       settings |-> InsertDefaults(settings, default_settings),
       raised   |-> c1.raised \/ c2.raised \/ c3.raised]

\* Apply one outcome of log_resource_usage to the store.
Persist(o) ==
  /\ samples' = o.table
  /\ appended' = IF o.raised THEN appended ELSE appended (+) One(o.row)
  /\ storeFailed' = (storeFailed \/ o.raised)
  /\ UNCHANGED <<tables, settings, visibility>>

\* ------------------------------------------- the external runtime (waydroid)
\* A `waydroid session start` process the helper spawned brings the session up
\* at some point of its execution ...
SessionComesUp ==
  /\ startProcs > 0
  /\ runtime = "Stopped"
  /\ runtime' = "Running"
  /\ UNCHANGED <<startProcs, lastStart, clock, mainVars, monVars, storeVars, fsVars>>

\* ... and terminates at some later point.
StartProcessExits ==
  /\ startProcs > 0
  /\ startProcs' = startProcs - 1
  /\ \/ /\ lastStart.exit = "running"      \* the latest one, with exit status 0 or not
        /\ \E status \in {"zero", "nonzero"} : lastStart' = [lastStart EXCEPT !.exit = status]
     \/ /\ lastStart.exit # "running" \/ startProcs > 1      \* an earlier one
        /\ UNCHANGED lastStart
  /\ UNCHANGED <<runtime, clock, mainVars, monVars, storeVars, fsVars>>

\* Time passes ...
ClockAdvances ==
  /\ clock < MaxClock
  /\ clock' = clock + 1
  /\ UNCHANGED <<runtime, startProcs, lastStart, mainVars, monVars, storeVars, fsVars>>

\* ... and the system clock may be set back (time.time() is not monotonic).
ClockSetBack ==
  /\ \E t \in 0 .. (clock - 1) : clock' = t
  /\ UNCHANGED <<runtime, startProcs, lastStart, mainVars, monVars, storeVars, fsVars>>

\* ------------------------------------------------- controller primitives
\* A returned value as the caller sees it: "True", "False", "dict" (the usage
\* figures), or "raised" when an exception escapes the method.
Py(b) == IF b THEN "True" ELSE "False"

\* no start_container yet
NoStart == [exit |-> "none", returned |-> "none"]

\* is_container_running: 'RUNNING' in the output of `waydroid status`; a
\* non-zero exit or a missing binary (ok = FALSE) gives False.
is_container_running(ok) == ok /\ runtime = "Running"

\* start_container: Popen returns as soon as the process is spawned (res = TRUE),
\* or raises and the method returns False.  It never waits for the process.
start_container(res) ==
  /\ \/ res /\ startProcs < MaxProcs /\ startProcs' = startProcs + 1
     \/ ~res /\ startProcs' = startProcs
  /\ lastStart' = [exit |-> IF res THEN "running" ELSE "missing", returned |-> Py(res)]
  /\ log' = Append(log, Ev("start", res))

\* stop_container, once `waydroid session stop` has returned: exit status 0
\* (res = TRUE) or CalledProcessError / FileNotFoundError caught (res = FALSE).
stop_container(res) ==
  /\ runtime' = IF res THEN "Stopped" ELSE runtime
  /\ log' = Append(log, Ev("stop", res))

\* freeze_container / unfreeze_container, once the command has returned.  The
\* frozen container still reports a running session; runtime is unchanged.
freeze_container(res) == log' = Append(log, Ev("freeze", res))
unfreeze_container(res) == log' = Append(log, Ev("unfreeze", res))

\* ------------------------------------------------------------ main thread
\* The main loop dispatches the next bus method when the previous has returned;
\* p is the method's first position.
Dispatch(m, a, p) ==
  /\ pc = "done"
  /\ calls < MaxCalls
  /\ call' = m
  /\ arg' = a
  /\ pc' = p
  /\ calls' = calls + 1
  /\ wasRunning' = FALSE
  /\ backupDir' = ""
  /\ ret' = "none"
  /\ log' = <<>>
  /\ UNCHANGED <<envVars, monVars, storeVars, fsVars>>

Return(v) == pc' = "done" /\ ret' = v

\* The blocking external command the main thread is waiting for.
InFlight(p) ==
  CASE p \in {"stop_run", "restart_stop_run", "backup_stop_run", "restore_stop_run"} -> "stop"
    [] p \in {"status_run", "backup_status_run", "restore_status_run"} -> "status"
    [] p = "freeze_run" -> "freeze"
    [] p = "unfreeze_run" -> "unfreeze"
    [] p = "backup_data_run" -> "tar_c_data"
    [] p = "backup_apps_run" -> "tar_c_apps"
    [] p = "restore_data_run" -> "tar_x_data"
    [] p = "restore_apps_run" -> "tar_x_apps"
    [] OTHER -> "none"

\* StartContainer -> start_container
StartContainer ==
  \/ Dispatch("StartContainer", "", "start")
  \/ /\ pc = "start"
     /\ \E res \in BOOLEAN : start_container(res) /\ Return(Py(res))
     /\ UNCHANGED <<runtime, clock, callVars, locals, monVars, storeVars, fsVars>>

\* StopContainer -> stop_container: subprocess.run blocks until the command exits
StopContainer ==
  \/ Dispatch("StopContainer", "", "stop_run")
  \/ /\ pc = "stop_run"
     /\ \E res \in BOOLEAN : stop_container(res) /\ Return(Py(res))
     /\ UNCHANGED <<startProcs, lastStart, clock, callVars, locals, monVars, storeVars, fsVars>>

\* a restart that gives up, returning False, when the stop fails
RestartAbortsOnFailedStop ==
  \/ Dispatch("RestartContainer", "", "restart_stop_run")
  \/ /\ pc = "restart_stop_run"
     /\ \E res \in BOOLEAN :
          /\ stop_container(res)
          /\ IF res THEN pc' = "restart_sleep" /\ UNCHANGED ret ELSE Return("False")
     /\ UNCHANGED <<startProcs, lastStart, clock, callVars, locals, monVars, storeVars, fsVars>>
  \/ /\ pc = "restart_sleep"
     /\ \E res \in BOOLEAN : start_container(res)
     /\ Return("True")
     /\ UNCHANGED <<runtime, clock, callVars, locals, monVars, storeVars, fsVars>>

\* RestartContainer -> restart_container: stop, time.sleep(2), start; both
\* results are dropped and True is returned (no call in the try block raises).
RestartContainer ==
  \/ Dispatch("RestartContainer", "", "restart_stop_run")
  \/ /\ pc = "restart_stop_run"
     /\ \E res \in BOOLEAN : stop_container(res)
     /\ pc' = "restart_sleep"
     /\ UNCHANGED <<startProcs, lastStart, clock, callVars, locals, ret, monVars, storeVars, fsVars>>
  \/ /\ pc = "restart_sleep"
     /\ \E res \in BOOLEAN : start_container(res)
     /\ Return("True")
     /\ UNCHANGED <<runtime, clock, callVars, locals, monVars, storeVars, fsVars>>

FreezeContainer ==
  \/ Dispatch("FreezeContainer", "", "freeze_run")
  \/ /\ pc = "freeze_run"
     /\ \E res \in BOOLEAN : freeze_container(res) /\ Return(Py(res))
     /\ UNCHANGED <<envVars, callVars, locals, monVars, storeVars, fsVars>>

UnfreezeContainer ==
  \/ Dispatch("UnfreezeContainer", "", "unfreeze_run")
  \/ /\ pc = "unfreeze_run"
     /\ \E res \in BOOLEAN : unfreeze_container(res) /\ Return(Py(res))
     /\ UNCHANGED <<envVars, callVars, locals, monVars, storeVars, fsVars>>

IsContainerRunning ==
  \/ Dispatch("IsContainerRunning", "", "status_run")
  \/ /\ pc = "status_run"
     /\ \E ok \in BOOLEAN :
          /\ Return(Py(is_container_running(ok)))
          /\ log' = Append(log, Ev("status", ok))
     /\ UNCHANGED <<envVars, callVars, locals, monVars, storeVars, fsVars>>

\* The sampling of get_container_resource_usage (lines 227-262) yields some
\* figures, and line 265 persists them: every outcome of the two together.
SampleOutcomes ==
  UNION { log_resource_usage(f.cpu_usage, f.ram_usage, f.storage_usage) : f \in Figures }

\* get_container_resource_usage, once the psutil / directory sampling is over:
\* the figures are persisted (outside the try block, so a store error escapes
\* to the caller) and returned.
get_container_resource_usage(o) ==
  /\ o \in SampleOutcomes
  /\ Persist(o)

FiguresOf(row) == <<row.cpu_usage, row.ram_usage, row.storage_usage>>

\* GetResourceUsage -> get_container_resource_usage, in any runtime state
GetResourceUsage ==
  \/ Dispatch("GetResourceUsage", "", "sampling")
  \/ /\ pc = "sampling"
     /\ \E o \in SampleOutcomes :
          /\ get_container_resource_usage(o)
          /\ Return(IF o.raised THEN "raised" ELSE "dict")
     /\ UNCHANGED <<envVars, callVars, locals, log, monVars, fsVars>>

\* ------------------------------------------------------- app visibility
\* Text is a sequence of tokens: a file's content is its tokens in order, with
\* "\n" a token of its own; a package or file name is one or more tokens, so
\* that one name can be part of another.  Concatenation, prefix and substring
\* tests work on the token sequences.

\* for line in f / f.readlines(): the lines, each with its "\n" except
\* possibly the last
RECURSIVE Lines(_)
Lines(content) ==
  IF content = <<>> THEN <<>>
  ELSE LET nl == {i \in 1 .. Len(content) : content[i] = "\n"}
           cut == IF nl = {} THEN Len(content)
                  ELSE CHOOSE i \in nl : \A j \in nl : i <= j
       IN  <<SubSeq(content, 1, cut)>> \o Lines(SubSeq(content, cut + 1, Len(content)))

\* needle in content
Contains(content, needle) ==
  \E i \in 1 .. (Len(content) - Len(needle) + 1) :
     SubSeq(content, i, i + Len(needle) - 1) = needle

\* file_name.endswith('.desktop')
IsDesktopFile(name) == name # <<>> /\ name[Len(name)] = ".desktop"

\* line.startswith('NoDisplay=')
IsNoDisplay(line) == line # <<>> /\ line[1] = "NoDisplay="

\* str(flag).lower()
Lower(flag) == IF flag THEN "true" ELSE "false"

RECURSIVE Concat(_)
Concat(ls) == IF ls = <<>> THEN <<>> ELSE Head(ls) \o Concat(Tail(ls))

\* lines 347-360: what the rewrite writes to the file
RewriteEntry(content, visible) ==
  LET lines == Lines(content)
      flag  == <<"NoDisplay=", Lower(~visible), "\n">>
      found == \E i \in 1 .. Len(lines) : IsNoDisplay(lines[i])
  IN  Concat([i \in 1 .. Len(lines) |->
                IF IsNoDisplay(lines[i]) THEN flag ELSE lines[i]])
      \o (IF found THEN <<>> ELSE flag)

\* lines 335-343: the files to rewrite
DesktopFilesWith(package_name) ==
  IF ~appsDir.exists THEN {}
  ELSE {f \in DOMAIN appsDir.files :
          IsDesktopFile(f) /\ Contains(appsDir.files[f], package_name)}

VisibilityRow(p, n, v) == [visible |-> v, package_name |-> p, app_name |-> n]

\* WaydroidDBHandler.set_app_visibility: INSERT OR REPLACE on the primary key
\* package_name; the committed table, or sqlite3.Error raised with no change
db_set_app_visibility(package_name, app_name, visible) ==
  { [raised |-> TRUE, table |-> visibility],
    [raised |-> FALSE,
     table |-> {r \in visibility : r.package_name # package_name}
               \cup {VisibilityRow(package_name, app_name, IF visible THEN 1 ELSE 0)}] }

\* a file whose rewrite raised: untouched (open failed), or truncated by
\* open(..., 'w') and holding only the first lines of the new text
FailedRewrite(content, visible) ==
  LET new == Lines(RewriteEntry(content, visible)) IN
  {content} \cup { Concat(SubSeq(new, 1, k)) : k \in 0 .. (Len(new) - 1) }

\* a method that reports the store write alone
StoreWriteResult(ops) == Py(ops # <<>> /\ ops[1].ok)

\* return True at the end of the try block (line 362) when nothing raised,
\* return False from the except clause (lines 363-365) otherwise
visibility_result(ops) == Py(\A i \in 1 .. Len(ops) : ops[i].ok)

\* WaydroidController.set_app_visibility: the store write, then the rewrite of
\* every matching file in os.listdir order.  An exception anywhere (the store,
\* open, read, write) ends the method with False, leaving what was done so far.
\* The log keeps the steps taken: "store", then "find" (listing and reading
\* the entries) when that raised, or "rewrite".
set_app_visibility(package_name, app_name, visible) ==
  \E o \in db_set_app_visibility(package_name, app_name, visible) :
    /\ visibility' = o.table
    /\ storeFailed' = (storeFailed \/ o.raised)
    /\ IF o.raised
       THEN log' = <<Ev("store", FALSE)>> /\ UNCHANGED appsDir
       ELSE LET match == DesktopFilesWith(package_name) IN
            \/ /\ appsDir' = IF match = {} THEN appsDir
                             ELSE [appsDir EXCEPT !.files =
                                     [f \in DOMAIN appsDir.files |->
                                        IF f \in match
                                        THEN RewriteEntry(appsDir.files[f], visible)
                                        ELSE appsDir.files[f]]]
               /\ log' = <<Ev("store", TRUE), Ev("rewrite", TRUE)>>
            \/ \E bad \in match : \E rewritten \in SUBSET (match \ {bad}) :
               \E left \in FailedRewrite(appsDir.files[bad], visible) :
                 /\ appsDir' = [appsDir EXCEPT !.files =
                                  [f \in DOMAIN appsDir.files |->
                                     IF f \in rewritten
                                     THEN RewriteEntry(appsDir.files[f], visible)
                                     ELSE IF f = bad THEN left ELSE appsDir.files[f]]]
                 /\ log' = <<Ev("store", TRUE), Ev("rewrite", FALSE)>>
            \/ /\ appsDir.exists            \* os.listdir or a read raised
               /\ UNCHANGED appsDir
               /\ log' = <<Ev("store", TRUE), Ev("find", FALSE)>>
    /\ Return(visibility_result(log'))

\* the packages and names callers pass
PkgA  == <<"com.a">>
PkgAB == <<"com.a", ".b">>
PkgC  == <<"org.c">>
Packages == {PkgA, PkgAB, PkgC}

SetAppVisibility ==
  \/ \E p \in Packages, v \in BOOLEAN :
       Dispatch("SetAppVisibility", [visible |-> v, package_name |-> p, app_name |-> "App"],
                "set_app_visibility")
  \/ /\ pc = "set_app_visibility"
     /\ set_app_visibility(arg.package_name, arg.app_name, arg.visible)
     /\ UNCHANGED <<envVars, callVars, locals, monVars, tables, settings, samples,
                    appended, dataDir, backups, cleared>>

\* ------------------------------------------------------ backup / restore
\* time.strftime('%Y-%m-%d_%H-%M-%S'): one directory name per clock reading
BackupDirName(ts) == "waydroid_backup_" \o IntToStr(ts)

EmptyBackupSet(mtime) == [data |-> NoFile, apps |-> NoFile, mtime |-> mtime]

\* os.makedirs(path, exist_ok=True) in BACKUP_PATH
MakeBackupDir(b, name, mtime) ==
  [exists |-> TRUE,
   dirs |-> IF name \in DOMAIN b.dirs THEN b.dirs
            ELSE [d \in (DOMAIN b.dirs) \cup {name} |->
                    IF d = name THEN EmptyBackupSet(mtime) ELSE b.dirs[d]]]

\* tar czf <backup_dir>/<which>.tar.gz once it has exited: the archive of the
\* tree as it is (ok), or an incomplete file or none (tar failed).
WriteArchive(b, name, which, file, mtime) ==
  [b EXCEPT !.dirs[name] = [@ EXCEPT ![which] = file, !.mtime = mtime]]

TarCreate(ok, dir, old) ==
  IF ok THEN {Archive(dir.files, TRUE)}
  ELSE {old} \cup { Archive(Restrict(dir.files, S), FALSE) :
                      S \in (SUBSET DOMAIN dir.files) \ {DOMAIN dir.files} }

BackupAfterData == IF appsDir.exists THEN "backup_apps_run" ELSE "backup_finish"
BackupAfterStop == IF dataDir.exists THEN "backup_data_run" ELSE BackupAfterData

\* BackupData -> backup_data.  Any exception inside the try block (a failed
\* makedirs, CalledProcessError of a tar, sqlite3.Error of set_setting) ends
\* the method at once with False (lines 411-413).
backup_data ==
  \/ /\ pc = "backup"                       \* lines 371-379
     /\ \/ /\ backups' = MakeBackupDir(backups, BackupDirName(time_time), time_time)
           /\ backupDir' = BackupDirName(time_time)
           /\ pc' = "backup_status_run"
           /\ UNCHANGED <<ret, wasRunning>>
        \/ Return("False") /\ UNCHANGED <<backups, locals>>
     /\ UNCHANGED <<envVars, callVars, log, monVars, storeVars, dataDir, appsDir, cleared>>
  \/ /\ pc = "backup_status_run"            \* lines 379-381
     /\ \E ok \in BOOLEAN :
          /\ wasRunning' = is_container_running(ok)
          /\ log' = Append(log, Ev("status", ok))
          /\ pc' = IF is_container_running(ok) THEN "backup_stop_run" ELSE BackupAfterStop
     /\ UNCHANGED <<envVars, callVars, backupDir, ret, monVars, storeVars, fsVars>>
  \/ /\ pc = "backup_stop_run"              \* line 381: the result is dropped
     /\ \E res \in BOOLEAN : stop_container(res)
     /\ pc' = BackupAfterStop
     /\ UNCHANGED <<startProcs, lastStart, clock, callVars, locals, ret, monVars, storeVars, fsVars>>
  \/ /\ pc = "backup_data_run"              \* lines 384-391
     /\ \E ok \in BOOLEAN :
          /\ \E file \in TarCreate(ok, dataDir, backups.dirs[backupDir].data) :
               backups' = WriteArchive(backups, backupDir, "data", file, time_time)
          /\ log' = Append(log, Ev("tar_c_data", ok))
          /\ IF ok THEN pc' = BackupAfterData /\ UNCHANGED ret ELSE Return("False")
     /\ UNCHANGED <<envVars, callVars, locals, monVars, storeVars, dataDir, appsDir, cleared>>
  \/ /\ pc = "backup_apps_run"              \* lines 394-401
     /\ \E ok \in BOOLEAN :
          /\ \E file \in TarCreate(ok, appsDir, backups.dirs[backupDir].apps) :
               backups' = WriteArchive(backups, backupDir, "apps", file, time_time)
          /\ log' = Append(log, Ev("tar_c_apps", ok))
          /\ IF ok THEN pc' = "backup_finish" /\ UNCHANGED ret ELSE Return("False")
     /\ UNCHANGED <<envVars, callVars, locals, monVars, storeVars, dataDir, appsDir, cleared>>
  \/ /\ pc = "backup_finish"                \* lines 404-410
     /\ \E o \in set_setting("last_backup_time", PyInt(time_time)) :
          /\ settings' = o.table
          /\ storeFailed' = (storeFailed \/ o.raised)
          /\ IF o.raised
             THEN Return("False") /\ UNCHANGED <<startProcs, lastStart, log>>
             ELSE /\ IF wasRunning
                     THEN \E res \in BOOLEAN : start_container(res)
                     ELSE UNCHANGED <<startProcs, lastStart, log>>
                  /\ Return("True")
     /\ UNCHANGED <<runtime, clock, callVars, locals, monVars, tables, visibility, samples,
                    appended, fsVars>>

BackupData ==
  \/ Dispatch("BackupData", "", "backup")
  \/ backup_data

\* min(backup_dirs, key=os.path.getmtime)
OldestBackupDirs(b) ==
  {d \in DOMAIN b.dirs : \A e \in DOMAIN b.dirs : b.dirs[d].mtime <= b.dirs[e].mtime}

\* max(backup_dirs, key=os.path.getmtime): a directory of greatest mtime (which
\* one among equals depends on the os.listdir order)
LatestBackupDirs(b) ==
  {d \in DOMAIN b.dirs : \A e \in DOMAIN b.dirs : b.dirs[e].mtime <= b.dirs[d].mtime}

\* os.path.exists(<backup_dir>/waydroid_data.tar.gz), .../waydroid_apps.tar.gz
DataBackupExists(d) == backups.exists /\ d \in DOMAIN backups.dirs /\ backups.dirs[d].data.exists
AppsBackupExists(d) == backups.exists /\ d \in DOMAIN backups.dirs /\ backups.dirs[d].apps.exists

\* a restore without the test of line 431
NoArchiveCheck(d) == FALSE

\* line 431: neither archive file exists in the directory
NoValidBackupFiles(d) == ~DataBackupExists(d) /\ ~AppsBackupExists(d)

RestoreAfterData == IF AppsBackupExists(backupDir) THEN "restore_apps_run" ELSE "restore_finish"
RestoreAfterStop == IF DataBackupExists(backupDir) THEN "restore_data_run" ELSE RestoreAfterData

\* tar xzf once it has exited: the whole archive extracted (ok, which a
\* complete archive allows), or a failure with part of it written.
TarExtract(ok, dir, file) ==
  IF ok /\ file.complete THEN {Overlay(dir, file.tree)}
  ELSE PartialOverlay(dir, file.tree)

\* a restore that looks for the newest directory whatever it was passed
IgnoreGivenPath(a) == IF ~backups.exists THEN {} ELSE LatestBackupDirs(backups)

\* the directories restore_data may settle on (lines 419-425): none when it
\* returns False at line 424 or os.listdir raises
SelectBackupDir(a) ==
  IF a # "" THEN {a}
  ELSE IF ~backups.exists THEN {}
  ELSE LatestBackupDirs(backups)

\* RestoreData -> restore_data
restore_data ==
  \/ /\ pc = "restore"                      \* lines 419-436
     /\ \/ /\ SelectBackupDir(arg) = {}
           /\ Return("False") /\ UNCHANGED locals
        \/ \E d \in SelectBackupDir(arg) :
             /\ backupDir' = d
             /\ IF NoValidBackupFiles(d)
                THEN Return("False")
                ELSE pc' = "restore_status_run" /\ UNCHANGED ret
             /\ UNCHANGED wasRunning
     /\ UNCHANGED <<envVars, callVars, log, monVars, storeVars, fsVars>>
  \/ /\ pc = "restore_status_run"           \* lines 436-438
     /\ \E ok \in BOOLEAN :
          /\ wasRunning' = is_container_running(ok)
          /\ log' = Append(log, Ev("status", ok))
          /\ pc' = IF is_container_running(ok) THEN "restore_stop_run" ELSE RestoreAfterStop
     /\ UNCHANGED <<envVars, callVars, backupDir, ret, monVars, storeVars, fsVars>>
  \/ /\ pc = "restore_stop_run"             \* line 438: the result is dropped
     /\ \E res \in BOOLEAN : stop_container(res)
     /\ pc' = RestoreAfterStop
     /\ UNCHANGED <<startProcs, lastStart, clock, callVars, locals, ret, monVars, storeVars, fsVars>>
  \/ /\ pc = "restore_data_run"             \* lines 441-446
     /\ \E ok \in BOOLEAN :
          LET done == ok /\ backups.dirs[backupDir].data.complete IN
          /\ dataDir' \in TarExtract(ok, dataDir, backups.dirs[backupDir].data)
          /\ log' = Append(log, Ev("tar_x_data", done))
          /\ IF done THEN pc' = RestoreAfterData /\ UNCHANGED ret ELSE Return("False")
     /\ UNCHANGED <<envVars, callVars, locals, monVars, storeVars, appsDir, backups, cleared>>
  \/ /\ pc = "restore_apps_run"             \* lines 449-457
     /\ \E ok \in BOOLEAN :
          LET done == ok /\ backups.dirs[backupDir].apps.complete IN
          /\ appsDir' \in TarExtract(ok, appsDir, backups.dirs[backupDir].apps)
          /\ log' = Append(log, Ev("tar_x_apps", done))
          /\ IF done THEN pc' = "restore_finish" /\ UNCHANGED ret ELSE Return("False")
     /\ UNCHANGED <<envVars, callVars, locals, monVars, storeVars, dataDir, backups, cleared>>
  \/ /\ pc = "restore_finish"               \* lines 460-463
     /\ IF wasRunning
        THEN \E res \in BOOLEAN : start_container(res)
        ELSE UNCHANGED <<startProcs, lastStart, log>>
     /\ Return("True")
     /\ UNCHANGED <<runtime, clock, callVars, locals, monVars, storeVars, fsVars>>

\* the backup_dir strings a caller passes: none, or the name of some directory
RestoreArgs == {""} \cup {BackupDirName(ts) : ts \in 0 .. MaxClock}

RestoreData ==
  \/ \E a \in RestoreArgs : Dispatch("RestoreData", a, "restore")
  \/ restore_data

\* --------------------------------------------------------- monitor thread
\* What one loop iteration has done so far: the status it read, the rows it
\* committed and the signals it emitted (with the last of each).
NoTick == [status |-> "none", appends |-> 0, emits |-> 0, sample |-> <<>>, event |-> <<>>]

\* The signal ResourceUsageChanged(cpu_usage, ram_usage, storage_usage)
ResourceUsageChanged(t, cpu_usage, ram_usage, storage_usage) ==
  [t EXCEPT !.emits = @ + 1, !.event = <<cpu_usage, ram_usage, storage_usage>>]

\* a loop without the except clause: the thread ends when an iteration raises
EndsOnException(raised) == IF raised THEN "ended" ELSE "sleep"

\* where the loop goes after the body of an iteration: an exception is caught
\* and logged (lines 511-512), and either way time.sleep(3) follows
AfterIteration(raised) == "sleep"

\* _resource_monitor_loop: one iteration is the wake-up (`waydroid status` is
\* issued), the status result, and, if it says RUNNING, the sampling followed
\* by persist + signal.  Any exception of the iteration is caught and logged
\* (lines 511-512); then time.sleep(3).
resource_monitor_loop ==
  \/ /\ mpc = "sleep"
     /\ monitoring
     /\ ticks < MaxTicks
     /\ mpc' = "status_run"
     /\ tick' = NoTick
     /\ ticks' = ticks + 1
     /\ UNCHANGED <<monitoring, envVars, mainVars, storeVars, fsVars>>
  \/ /\ mpc = "status_run"
     /\ \E ok \in BOOLEAN :
          /\ tick' = [tick EXCEPT !.status = Py(is_container_running(ok))]
          /\ mpc' = IF is_container_running(ok) THEN "sampling" ELSE "sleep"
     /\ UNCHANGED <<monitoring, ticks, envVars, mainVars, storeVars, fsVars>>
  \/ /\ mpc = "sampling"
     /\ \E o \in SampleOutcomes :
          /\ get_container_resource_usage(o)
          /\ tick' = IF o.raised THEN tick
                     ELSE ResourceUsageChanged(
                            [tick EXCEPT !.appends = @ + 1, !.sample = FiguresOf(o.row)],
                            o.row.cpu_usage, o.row.ram_usage, o.row.storage_usage)
          /\ mpc' = AfterIteration(o.raised)
     /\ UNCHANGED <<monitoring, ticks, envVars, mainVars, fsVars>>

\* ------------------------------------------------------------ initial state

\* The service as main() leaves it: store initialised, controller and service
\* constructed, monitor thread started and asleep, no bus call dispatched yet.
InitService ==
  /\ startProcs = 0 /\ clock = 0 /\ lastStart = NoStart
  /\ call = "none" /\ arg = "" /\ pc = "done" /\ wasRunning = FALSE /\ backupDir = ""
  /\ ret = "none" /\ log = <<>> /\ calls = 0
  /\ monitoring = TRUE /\ mpc = "sleep" /\ tick = NoTick /\ ticks = 0
  /\ tables = AllTables
  /\ settings = { SettingRow("auto_start", "0"), SettingRow("auto_update", "0"),
                  SettingRow("last_update_check", "0"), SettingRow("last_backup_time", "0") }
  /\ visibility = {}
  /\ samples = EmptyBag /\ appended = EmptyBag /\ storeFailed = FALSE

Init ==
  /\ InitService
  /\ runtime \in {"Stopped", "Running"}
  /\ dataDir = NoDir /\ appsDir = NoDir /\ backups = NoBackups /\ cleared = NoClear

\* Backup / restore, starting from the file systems a running helper can find:
\* data and app-entry directories present or not, BACKUP_PATH absent, empty, or
\* holding earlier backup sets (complete, empty after a failed backup, or with
\* an incomplete archive).
OldData == ("a" :> 1)
NewData == ("a" :> 2 @@ "b" :> 2)
OldApps == (<<"x", ".desktop">> :> <<"Name=", "X", "\n">>)
NewApps == (<<"x", ".desktop">> :> <<"Name=", "X", "\n", "NoDisplay=", "true", "\n">>)

InitBackups ==
  { NoBackups,
    [exists |-> TRUE, dirs |-> <<>>],
    [exists |-> TRUE, dirs |-> (BackupDirName(0) :> EmptyBackupSet(0))],
    [exists |-> TRUE,
     dirs |-> (BackupDirName(0) :>
                 [data |-> Archive(OldData, TRUE), apps |-> Archive(OldApps, TRUE), mtime |-> 0])],
    [exists |-> TRUE,
     dirs |-> (BackupDirName(0) :>
                 [data |-> Archive(OldData, TRUE), apps |-> NoFile, mtime |-> 1])
              @@ (BackupDirName(1) :> EmptyBackupSet(0))] }

InitBackup ==
  /\ InitService
  /\ runtime \in {"Stopped", "Running"}
  /\ dataDir \in {NoDir, Dir(NewData)}
  /\ appsDir \in {NoDir, Dir(NewApps)}
  /\ backups \in InitBackups /\ cleared = NoClear

NextBackup ==
  \/ BackupData
  \/ RestoreData
  \/ StartContainer
  \/ StopContainer
  \/ SessionComesUp
  \/ StartProcessExits
  \/ ClockAdvances

SpecBackup == InitBackup /\ [][NextBackup]_vars

\* The user empties or removes the data and app-entry directories after a
\* backup that returned True (both being populated), before anything else is
\* called.
ClearDirectories ==
  /\ call = "BackupData" /\ pc = "done" /\ ret = "True"
  /\ cleared.at # calls
  /\ dataDir.exists /\ DOMAIN dataDir.files # {}
  /\ appsDir.exists /\ DOMAIN appsDir.files # {}
  /\ dataDir' \in {NoDir, Dir(<<>>)}
  /\ appsDir' \in {NoDir, Dir(<<>>)}
  /\ cleared' = [data |-> dataDir.files, apps |-> appsDir.files, dir |-> backupDir,
                 at |-> calls]
  /\ UNCHANGED <<envVars, mainVars, monVars, storeVars, backups>>

\* The round trip: backups of the populated directories, the user clearing them
\* after one that returned True, then restores.  BACKUP_PATH is absent or holds
\* one other directory with an earlier backup set, last modified at any second
\* of the clock's range (the clock can have been set back since, or the
\* directory been touched).
InitRoundTripBackups ==
  {NoBackups} \cup
  { [exists |-> TRUE,
     dirs |-> ("earlier" :>
                 [data |-> Archive(OldData, TRUE), apps |-> Archive(OldApps, TRUE),
                  mtime |-> m])] : m \in 0 .. MaxClock }

InitRoundTrip ==
  /\ InitService
  /\ runtime \in {"Stopped", "Running"}
  /\ dataDir \in {Dir(OldData), Dir(NewData)}
  /\ appsDir \in {Dir(OldApps), Dir(NewApps)}
  /\ backups \in InitRoundTripBackups /\ cleared = NoClear

\* backups before the directories are cleared, restores after
BackupBeforeClear == cleared = NoClear /\ BackupData
RestoreAfterClear == cleared # NoClear /\ RestoreData

NextRoundTrip ==
  \/ BackupBeforeClear
  \/ ClearDirectories
  \/ RestoreAfterClear
  \/ ClockAdvances

SpecRoundTrip == InitRoundTrip /\ [][NextRoundTrip]_vars

\* Visibility toggling, starting from the app-entry directories a helper can
\* find: entries with or without a NoDisplay line, with or without a final
\* newline, for the package, for a package whose name contains it, or for
\* another one; and files that are no desktop entries.
Entry(p) == <<"Name=", "App", "\n", "Exec=", "waydroid app launch ">> \o p
EntryContents ==
  { Entry(PkgA) \o <<"\n">>,
    Entry(PkgA) \o <<"\n", "NoDisplay=", "true", "\n">>,
    Entry(PkgA) \o <<"\n", "NoDisplay=", "false">>,
    Entry(PkgA),
    Entry(PkgAB) \o <<"\n">>,
    Entry(PkgC) \o <<"\n", "NoDisplay=", "false", "\n", "Comment=", "com.a", "\n">> }

FileA == <<"a", ".desktop">>
FileB == <<"b", ".desktop">>
FileN == <<"notes", ".txt">>

InitVisibility ==
  /\ InitService
  /\ runtime = "Stopped"
  /\ dataDir = NoDir /\ backups = NoBackups /\ cleared = NoClear
  /\ appsDir \in {NoDir} \cup
       { Dir(FileA :> a @@ FileB :> b @@ FileN :> Entry(PkgA)) :
           a \in EntryContents, b \in EntryContents }

NextVisibility == SetAppVisibility

SpecVisibility == InitVisibility /\ [][NextVisibility]_vars

\* ------------------------------------------------------- the store alone
\* main(): the process starts, WaydroidDBHandler() runs _ensure_db_exists on
\* whatever settings.db holds.  An exception leaves main() and ends the process.
Main ==
  /\ calls < MaxCalls
  /\ LET o == ensure_db_exists IN
       /\ tables' = o.tables
       /\ settings' = IF o.raised THEN settings ELSE o.settings
       /\ storeFailed' = (storeFailed \/ o.raised)
       /\ ret' = IF o.raised THEN "raised" ELSE "none"
  /\ call' = "main" /\ calls' = calls + 1
  /\ UNCHANGED <<envVars, arg, locals, pc, log, monVars, visibility, samples, appended,
                 fsVars>>

\* the store's own operations, on a constructed handler
SettingKeys == {"auto_start", "auto_update", "last_update_check", "last_backup_time", "theme"}

SetSetting ==
  /\ calls > 0
  /\ \E k \in SettingKeys, v \in {PyStr("1"), PyInt(0), PyInt(1)} :
       \E o \in set_setting(k, v) :
         /\ settings' = o.table
         /\ storeFailed' = (storeFailed \/ o.raised)
         /\ arg' = [value |-> v, key |-> k]
         /\ ret' = IF o.raised THEN "raised" ELSE "none"
  /\ call' = "set_setting"
  /\ UNCHANGED <<envVars, calls, locals, pc, log, monVars, tables, visibility,
                 samples, appended, fsVars>>

\* The store as a starting helper can find it: no file yet, or the tables with
\* any settings (defaults changed by the user, other keys, defaults missing),
\* visibility rows and samples.
SettingsTables ==
  { { SettingRow(k, f[k]) : k \in DOMAIN f } :
      f \in UNION { [K -> {"0", "1"}] : K \in SUBSET SettingKeys } }

InitStore ==
  /\ startProcs = 0 /\ runtime = "Stopped" /\ clock = 0 /\ lastStart = NoStart
  /\ call = "none" /\ arg = "" /\ pc = "done" /\ wasRunning = FALSE /\ backupDir = ""
  /\ ret = "none" /\ log = <<>> /\ calls = 0
  /\ monitoring = FALSE /\ mpc = "sleep" /\ tick = NoTick /\ ticks = 0
  /\ \/ /\ tables = {} /\ settings = {} /\ visibility = {} /\ samples = EmptyBag
     \/ /\ tables = AllTables
        /\ settings \in SettingsTables
        /\ visibility \in { {}, {VisibilityRow(<<"com.a">>, "App", 0)} }
        /\ samples \in { EmptyBag, One(Row(0, Busy)) }
  /\ appended = samples /\ storeFailed = FALSE
  /\ dataDir = NoDir /\ appsDir = NoDir /\ backups = NoBackups /\ cleared = NoClear

NextStore == Main \/ SetSetting \/ ClockAdvances

SpecStore == InitStore /\ [][NextStore]_vars

\* --------------------------------------------------------- sample history
\* log_resource_usage called again and again (by monitor ticks and by
\* GetResourceUsage calls, one transaction at a time), from an empty table.
AppendSample ==
  /\ BagSize(appended) < MaxAppends
  /\ \E o \in log_resource_usage(Busy.cpu_usage, Busy.ram_usage, Busy.storage_usage) :
       Persist(o)
  /\ UNCHANGED <<envVars, mainVars, monVars, fsVars>>

InitSamples ==
  /\ InitService
  /\ runtime = "Running"
  /\ dataDir = NoDir /\ appsDir = NoDir /\ backups = NoBackups /\ cleared = NoClear

NextSamples == AppendSample \/ ClockAdvances \/ ClockSetBack

SpecSamples == InitSamples /\ [][NextSamples]_vars

Next ==
  \/ StartContainer
  \/ StopContainer
  \/ RestartContainer
  \/ FreezeContainer
  \/ UnfreezeContainer
  \/ IsContainerRunning
  \/ GetResourceUsage
  \/ resource_monitor_loop
  \/ SessionComesUp
  \/ StartProcessExits
  \/ ClockAdvances

Spec == Init /\ [][Next]_vars

\* The monitor thread beside the calls that change what it reads and writes,
\* the thread being scheduled again and again and every external call of its
\* returning (weak fairness of its steps).
NextMonitor ==
  \/ resource_monitor_loop
  \/ StartContainer
  \/ StopContainer
  \/ GetResourceUsage
  \/ SessionComesUp
  \/ StartProcessExits

SpecMonitor == Init /\ [][NextMonitor]_vars /\ WF_vars(resource_monitor_loop)

\* ================================================================ claims
LifecycleCalls ==
  {"StartContainer", "StopContainer", "RestartContainer", "FreezeContainer",
   "UnfreezeContainer", "BackupData", "RestoreData"}

\* C1: at most one external 'session start' process launched by the helper is
\* executing in any reachable state.
C1_OneStartInFlight == startProcs <= 1

\* C2: the external-process invocations of two lifecycle calls never overlap:
\* no lifecycle call has a command in flight, and none spawns a start process,
\* while a start process spawned by an earlier call is still executing.
C2_LifecycleSerialized ==
  /\ startProcs <= 1
  /\ ~(call \in LifecycleCalls /\ InFlight(pc) # "none" /\ startProcs > 0)

\* A start, stop, restart, backup or restore has begun and not yet returned.
Mutating ==
  /\ call \in {"StartContainer", "StopContainer", "RestartContainer", "BackupData",
               "RestoreData"}
  /\ pc # "done"

\* C3: no monitor tick reads the runtime status, persists a sample or emits
\* ResourceUsageChanged between the beginning and the end of a start, stop,
\* restart, backup or restore.
C3_TickSkipsDuringMutation ==
  [][ ( \/ mpc = "status_run" /\ mpc' # "status_run"
        \/ mpc = "sampling" /\ mpc' # "sampling" ) => ~Mutating ]_vars

\* C4: a finished tick that read a status other than Running appended no sample
\* and emitted no event; one that read Running appended exactly one sample and
\* emitted exactly one event carrying that sample's three figures.
C4_TickContract ==
  (mpc = "sleep" /\ tick.status # "none") =>
     IF tick.status = "True"
     THEN tick.appends = 1 /\ tick.emits = 1 /\ tick.event = tick.sample
     ELSE tick.appends = 0 /\ tick.emits = 0

\* C6: a lifecycle operation in which an external command failed returns false;
\* it returns true only if every step it performed succeeded.
C6_NoSwallowedFailure ==
  (pc = "done" /\ call \in LifecycleCalls) =>
     /\ (\E i \in 1 .. Len(log) : ~log[i].ok) => ret = "False"
     /\ ret = "True" => \A i \in 1 .. Len(log) : log[i].ok

\* C5: a backup that observed the runtime Running and then had an archive step
\* fail has issued the external start command by the time it returns.
C5_BackupRestartsAfterFailure ==
  ( /\ pc = "done" /\ call = "BackupData" /\ wasRunning
    /\ \E i \in 1 .. Len(log) : log[i].cmd \in {"tar_c_data", "tar_c_apps"} /\ ~log[i].ok )
  => \E j \in 1 .. Len(log) : log[j].cmd = "start"

\* BACKUP_PATH is missing or holds no backup directory
NoBackupDirs == ~backups.exists \/ DOMAIN backups.dirs = {}

\* directory d of BACKUP_PATH is missing or holds neither archive
HoldsNoArchive(d) ==
  \/ ~backups.exists
  \/ d \notin DOMAIN backups.dirs
  \/ ~backups.dirs[d].data.exists /\ ~backups.dirs[d].apps.exists

\* C7: restore fails closed.  When restore is called with no directory and none
\* exists, or the directory it settles on holds neither archive, the step that
\* finds this out returns False, has issued no stop, start or extract command,
\* and leaves the data directory, the app entries and the store as they were.
C7_RestoreFailsClosed ==
  [][ ( /\ call = "RestoreData" /\ pc = "restore" /\ pc' # pc
        /\ \/ arg = "" /\ NoBackupDirs
           \/ backupDir' # "" /\ HoldsNoArchive(backupDir') )
      => ( /\ pc' = "done" /\ ret' = "False"
           /\ log' = <<>>
           /\ UNCHANGED <<runtime, startProcs, dataDir, appsDir, backups, storeVars>> ) ]_vars

\* C7 witness: a restore with no argument and no backup directory has returned
\* False without a single external command.
C7_Witness ==
  /\ call = "RestoreData" /\ pc = "done" /\ arg = ""
  /\ NoBackupDirs
  /\ ret = "False" /\ log = <<>>

\* the entry launches package p: an Exec line `waydroid app launch <p>`
\* (what _parse_desktop_file reads as the entry's package)
Launches(content, p) ==
  \E i \in 1 .. Len(Lines(content)) :
     LET line == Lines(content)[i] IN
     \/ line = <<"Exec=", "waydroid app launch ">> \o p
     \/ line = <<"Exec=", "waydroid app launch ">> \o p \o <<"\n">>

\* the entry's display-suppression flag is hidden: it has a NoDisplay line, and
\* every NoDisplay line is exactly `NoDisplay=<hidden>` followed by a newline
FlagIs(content, hidden) ==
  /\ \E i \in 1 .. Len(Lines(content)) : IsNoDisplay(Lines(content)[i])
  /\ \A i \in 1 .. Len(Lines(content)) :
       IsNoDisplay(Lines(content)[i]) =>
         Lines(content)[i] = <<"NoDisplay=", Lower(hidden), "\n">>

\* C8: when setVisibility(package, name, visible) returns success, the store's
\* row for the package says visible, and every desktop entry that launched the
\* package when it was called has its NoDisplay flag set to the negation of
\* visible.
C8_VisibilityConverges ==
  [][ (pc = "set_app_visibility" /\ pc' = "done" /\ ret' = "True") =>
        /\ \E r \in visibility' :
             r.package_name = arg.package_name /\ r.visible = (IF arg.visible THEN 1 ELSE 0)
        /\ \A r1, r2 \in visibility' : r1.package_name = r2.package_name => r1 = r2
        /\ appsDir.exists =>
             \A f \in DOMAIN appsDir.files :
                (IsDesktopFile(f) /\ Launches(appsDir.files[f], arg.package_name))
                   => FlagIs(appsDir'.files[f], ~arg.visible) ]_vars

Min(a, b) == IF a <= b THEN a ELSE b

\* C9: every committed resource_logs table holds at most 100 samples; after n
\* appends it holds min(n, 100) of the appended samples, unmodified, and no
\* evicted sample has a greater timestamp than a retained one.
C9_SampleRetention ==
  /\ BagSize(samples) <= 100
  /\ BagSize(samples) = Min(BagSize(appended), 100)
  /\ samples \sqsubseteq appended
  /\ \A e \in BagToSet(appended (-) samples), k \in BagToSet(samples) :
       e.timestamp <= k.timestamp

\* C9 witness: more than 100 samples were appended, and an evicted one is
\* older than a retained one.
C9_Witness ==
  /\ BagSize(appended) > 100
  /\ BagSize(samples) = 100
  /\ \E e \in BagToSet(appended (-) samples), k \in BagToSet(samples) :
       e.timestamp < k.timestamp

\* C10: initialising against an existing store never raises, leaves every
\* setting row that was present unchanged, never leaves two rows for one key,
\* and leaves visibility rows and samples unchanged.
C10_InitIdempotent ==
  [][ (call' = "main" /\ calls' # calls /\ tables = AllTables) =>
        /\ ret' # "raised"
        /\ tables' = tables
        /\ settings \subseteq settings'
        /\ \A r1, r2 \in settings' : r1.key = r2.key => r1 = r2
        /\ visibility' = visibility
        /\ samples' = samples ]_vars

\* C10 witness: the store has been initialised twice, and holds a default key
\* with a value the user set, a key of the user's own, a visibility row and a
\* sample.
C10_Witness ==
  /\ call = "main" /\ calls = 2
  /\ SettingRow("auto_start", "1") \in settings
  /\ SettingRow("theme", "1") \in settings
  /\ visibility # {}
  /\ samples # EmptyBag

\* the keys of the settings table
Keys(T) == {r.key : r \in T}

\* C11: set_setting is an idempotent upsert.  After set_setting(k, v) has
\* committed, get_setting(k) returns str(v) and nothing else; every other key
\* keeps its rows; a second set_setting(k, v) right after the first leaves the
\* table as it is; and no step of any operation removes a key or, unless it is a
\* set_setting of that key, changes what get_setting returns for it.
C11_SetSettingUpsert ==
  [][ /\ Keys(settings) \subseteq Keys(settings')
      /\ (call' = "set_setting" /\ ret' = "none" /\ clock' = clock) =>
            /\ LET get == {r.value : r \in {x \in settings' : x.key = arg'.key}}
               IN  get = {str(arg'.value)}
            /\ {r \in settings' : r.key # arg'.key} = {r \in settings : r.key # arg'.key}
            /\ (call = "set_setting" /\ ret = "none" /\ arg = arg') => settings' = settings
      /\ ~(call' = "set_setting" /\ ret' = "none" /\ clock' = clock) =>
            \A r \in settings : r \in settings' ]_vars

\* C11 witness: set_setting('auto_start', 1) has committed over the value '0',
\* get_setting('auto_start') returns '1', and a key of the user's own is there.
C11_Witness ==
  /\ call = "set_setting" /\ ret = "none"
  /\ arg = [value |-> PyInt(1), key |-> "auto_start"]
  /\ get_setting("auto_start") = {PyStr("1")}
  /\ SettingRow("theme", "0") \in settings

\* the bus methods that return a Runtime Client primitive's result as it is
PrimitiveCalls ==
  {"IsContainerRunning", "StartContainer", "StopContainer", "FreezeContainer",
   "UnfreezeContainer"}

\* C12: a primitive whose external command exited non-zero or was missing
\* reports failure and lets no exception escape; in particular the latest start
\* returned failure if the start command it issued was missing or has exited
\* with a non-zero status.
C12_PrimitiveReportsFailure ==
  /\ (pc = "done" /\ call \in PrimitiveCalls) =>
        /\ ret # "raised"
        /\ (log # <<>> /\ ~log[Len(log)].ok) => ret = "False"
  /\ lastStart.exit \in {"missing", "nonzero"} => lastStart.returned = "False"

\* C13: a storage failure is fatal.  Once a statement on the store has raised,
\* neither the main thread nor the monitor thread takes another step, and the
\* store is not written again: the failure is not turned into a returned False
\* or a skipped tick after which the daemon goes on.
C13_StoreFailureIsFatal ==
  [][ storeFailed => UNCHANGED <<mainVars, monVars, storeVars>> ]_vars

\* C14: the stored sample history changes only in the step of a monitor tick
\* that read status Running; a GetResourceUsage bus call leaves it unchanged.
C14_OnlyTicksAppend ==
  [][ /\ (samples' # samples \/ appended' # appended) =>
           (mpc = "sampling" /\ mpc' = "sleep" /\ tick.status = "True")
      /\ (call = "GetResourceUsage" /\ pc = "sampling" /\ pc' = "done") =>
           (samples' = samples /\ appended' = appended) ]_vars

\* a restore with no argument has returned True, and it was the first call
\* after the user cleared the directories that a successful backup had archived
RoundTripDone ==
  /\ call = "RestoreData" /\ arg = "" /\ pc = "done" /\ ret = "True"
  /\ cleared # NoClear /\ calls = cleared.at + 1

\* both directories hold exactly the trees they held before they were cleared
TreesRestored ==
  /\ dataDir = Dir(cleared.data)
  /\ appsDir = Dir(cleared.apps)

\* the backup's directory is newer than every other directory of BACKUP_PATH
BackupIsNewest ==
  \A e \in (DOMAIN backups.dirs) \ {cleared.dir} :
     backups.dirs[e].mtime < backups.dirs[cleared.dir].mtime

\* C15: after a successful backup, the clearing of both directories and a
\* successful restore with no argument, the two directory trees are identical
\* to what they were.
C15_RoundTrip == RoundTripDone => TreesRestored

\* C15, restated: the round trip reconstructs both trees provided the directory
\* the backup wrote has a greater modification time than every other
\* directory of BACKUP_PATH.
C15_RoundTripOfNewest == (RoundTripDone /\ BackupIsNewest) => TreesRestored

\* C15 witness: a round trip over the two-file data tree is done, with an
\* earlier backup set of other content present and older than the new one.
C15_Witness ==
  /\ RoundTripDone /\ BackupIsNewest
  /\ "earlier" \in DOMAIN backups.dirs
  /\ cleared.data = NewData /\ dataDir = Dir(NewData) /\ appsDir = Dir(cleared.apps)

\* the positions at which an archive or extract command is in flight
TarRuns == {"backup_data_run", "backup_apps_run", "restore_data_run", "restore_apps_run"}

\* C16: backup and restore issue an archive or extract command only while the
\* runtime is Stopped; when they observed the runtime Running, only after a
\* stop command of theirs that succeeded.
C16_ArchiveOnlyWhenStopped ==
  [][ (pc' \in TarRuns /\ pc' # pc) =>
        /\ runtime' = "Stopped"
        /\ wasRunning' => \E i \in 1 .. Len(log') : log'[i].cmd = "stop" /\ log'[i].ok ]_vars

\* C17: a restart issues one stop command, then, once the stop has returned and
\* the settle delay is over, one start command, whether the stop succeeded or
\* not: nothing is issued before the stop returns, only the stop has been
\* issued during the delay, and the stop and then the start when it returns.
C17_RestartStopThenStart ==
  call = "RestartContainer" =>
    CASE pc = "restart_stop_run" -> log = <<>>
      [] pc = "restart_sleep" -> Len(log) = 1 /\ log[1].cmd = "stop"
      [] pc = "done" -> Len(log) = 2 /\ log[1].cmd = "stop" /\ log[2].cmd = "start"
      [] OTHER -> FALSE

\* C17 witness: a restart has returned whose stop failed and whose start
\* command was spawned all the same.
C17_Witness ==
  /\ call = "RestartContainer" /\ pc = "done"
  /\ Len(log) = 2 /\ ~log[1].ok /\ log[2].cmd = "start" /\ log[2].ok

\* C18: the monitor loop runs for the life of the process.  The monitoring flag
\* is never cleared, the thread is always at a position of the loop, and from
\* every state, also after an iteration that failed, the next iteration begins
\* (up to the number of iterations of one behaviour).
C18_MonitorRunsForever ==
  /\ [](monitoring /\ mpc \in {"sleep", "status_run", "sampling"})
  /\ \A n \in 0 .. (MaxTicks - 1) : (ticks = n) ~> (ticks = n + 1)

\* C18 witness: an iteration has begun after one whose store write raised (no
\* bus call was made, so the failure was the monitor's own).
C18_Witness ==
  /\ calls = 0 /\ storeFailed
  /\ ticks = MaxTicks /\ mpc = "status_run"

\* every file that contained the package name holds the rewritten text, and
\* no other file changed
AllRewritten ==
  /\ appsDir'.exists = appsDir.exists
  /\ appsDir.exists =>
       /\ DOMAIN appsDir'.files = DOMAIN appsDir.files
       /\ \A f \in DOMAIN appsDir.files :
            appsDir'.files[f] =
              IF IsDesktopFile(f) /\ Contains(appsDir.files[f], arg.package_name)
              THEN RewriteEntry(appsDir.files[f], arg.visible)
              ELSE appsDir.files[f]

\* the store holds exactly one row for the package, with the value passed
NewValueStored ==
  {r \in visibility' : r.package_name = arg.package_name}
     = {VisibilityRow(arg.package_name, arg.app_name, IF arg.visible THEN 1 ELSE 0)}

\* C19: setVisibility returns true exactly when nothing raised, and then every
\* referencing entry holds the rewritten text; when the search or the rewrite
\* of the entries raised after the store write succeeded, it returns false and
\* the store keeps the newly written value.
C19_RewriteFailureSurfaced ==
  [][ (pc = "set_app_visibility" /\ pc' = "done") =>
        /\ ret' \in {"True", "False"}
        /\ ret' = "True" <=> (\A i \in 1 .. Len(log') : log'[i].ok)
        /\ ret' = "True" => (AllRewritten /\ NewValueStored)
        /\ (log'[1].ok /\ \E i \in 2 .. Len(log') : ~log'[i].ok) =>
              (ret' = "False" /\ NewValueStored) ]_vars

\* C19 witness: a call that made an app hidden returned false after a rewrite
\* raised; the store says hidden, and an entry of the package still has no
\* NoDisplay line.
C19_Witness ==
  /\ call = "SetAppVisibility" /\ pc = "done" /\ ret = "False"
  /\ calls = 1 /\ arg.package_name = PkgA /\ ~arg.visible
  /\ log = <<Ev("store", TRUE), Ev("rewrite", FALSE)>>
  /\ VisibilityRow(PkgA, "App", 0) \in visibility
  /\ \E f \in DOMAIN appsDir.files :
       /\ IsDesktopFile(f) /\ Contains(appsDir.files[f], PkgA)
       /\ ~\E i \in 1 .. Len(Lines(appsDir.files[f])) : IsNoDisplay(Lines(appsDir.files[f])[i])

\* a restore has settled on a directory (backupDir is reset by the next call)
RestoreSelected == call = "RestoreData" /\ backupDir # ""

\* C20: a restore called with the empty string while a backup directory exists
\* restores from a directory whose modification time no existing backup
\* directory exceeds; a restore called with a path uses that path.
C20_RestoreSelection ==
  /\ (call = "RestoreData" /\ pc # "restore" /\ arg # "") => backupDir = arg
  /\ (call = "RestoreData" /\ pc # "restore" /\ arg = ""
        /\ backups.exists /\ DOMAIN backups.dirs # {}) =>
       /\ backupDir \in DOMAIN backups.dirs
       /\ \A e \in DOMAIN backups.dirs :
            backups.dirs[e].mtime <= backups.dirs[backupDir].mtime
  /\ (RestoreSelected /\ pc \in {"restore_data_run", "restore_apps_run"}) =>
       backupDir \in DOMAIN backups.dirs

\* C20 witness: a restore without a path returned True having restored from
\* the newer of two backup directories.
C20_Witness ==
  /\ RestoreSelected /\ arg = "" /\ pc = "done" /\ ret = "True"
  /\ \E e \in DOMAIN backups.dirs :
       backups.dirs[e].mtime < backups.dirs[backupDir].mtime

\* C20 witness, second case: a restore returned True from the path it was
\* given although another directory is newer.
C20_WitnessGivenPath ==
  /\ RestoreSelected /\ arg # "" /\ pc = "done" /\ ret = "True"
  /\ \E e \in DOMAIN backups.dirs :
       backups.dirs[e].mtime > backups.dirs[backupDir].mtime

NotNoDisplay(line) == ~IsNoDisplay(line)

\* the lines of an entry other than its NoDisplay= lines, in order
OtherLines(content) == SelectSeq(Lines(content), NotNoDisplay)

\* C21: setVisibility(P, name, visible) changes only what belongs to P.  The
\* store rows of the other packages are unchanged; no file appears or
\* disappears; a file that is not a desktop entry launching P is unchanged;
\* and when the call returns True, an entry launching P keeps every line that
\* is not a NoDisplay= line.
C21_VisibilityFrame ==
  [][ (pc = "set_app_visibility" /\ pc' = "done") =>
        /\ {r \in visibility' : r.package_name # arg.package_name}
             = {r \in visibility : r.package_name # arg.package_name}
        /\ appsDir'.exists = appsDir.exists
        /\ appsDir.exists =>
             /\ DOMAIN appsDir'.files = DOMAIN appsDir.files
             /\ \A f \in DOMAIN appsDir.files :
                  IF IsDesktopFile(f) /\ Launches(appsDir.files[f], arg.package_name)
                  THEN ret' = "True" =>
                         OtherLines(appsDir'.files[f]) = OtherLines(appsDir.files[f])
                  ELSE appsDir'.files[f] = appsDir.files[f] ]_vars

ArchiveRuns == {"backup_data_run", "backup_apps_run"}

\* C22: the settings change only in the last step of a backup that returns
\* True, and then only the row of last_backup_time; a backup whose archive
\* step fails returns False at that step, and no step of a backup that
\* returns False changes a setting.
C22_BackupTimeFrame ==
  [][ /\ settings' # settings =>
           /\ call = "BackupData" /\ pc = "backup_finish"
           /\ pc' = "done" /\ ret' = "True"
           /\ {r \in settings' : r.key # "last_backup_time"}
                = {r \in settings : r.key # "last_backup_time"}
      /\ (call = "BackupData" /\ pc \in ArchiveRuns /\ pc' # pc /\ ~log'[Len(log')].ok) =>
           (pc' = "done" /\ ret' = "False" /\ settings' = settings)
      /\ (call = "BackupData" /\ pc # "done" /\ pc' = "done" /\ ret' = "False") =>
           settings' = settings ]_vars

\* C22 witness: a backup returned False when its second archive step failed,
\* at a time that differs from the stored last_backup_time, which is as it was.
C22_Witness ==
  /\ call = "BackupData" /\ pc = "done" /\ ret = "False"
  /\ Len(log) >= 2 /\ log[Len(log) - 1] = Ev("tar_c_data", TRUE)
  /\ log[Len(log)] = Ev("tar_c_apps", FALSE)
  /\ clock = 1 /\ SettingRow("last_backup_time", "0") \in settings
  /\ backups.dirs[backupDir].data.exists

=============================================================================
